---------------------------- MODULE Spec2Model ----------------------------
(***************************************************************************)
(* Model of the action-execution protocol of the surfer-ai extension:      *)
(*   - the Dispatcher  (src/src/background/background.ts,                   *)
(*                      handleExecuteAction / handleGetPageState),         *)
(*   - the Executor    (content script, src/unnamed/part_002 lines 365-868,*)
(*                      the variant the Dispatcher is written against:     *)
(*                      it answers scroll, click and type),                *)
(*   - the page (scroll position, height readings, elements) and the       *)
(*     chrome.* calls, as the environment.                                 *)
(* One dispatch runs at a time; its steps are the awaits of the handler.   *)
(***************************************************************************)
EXTENDS Integers, Sequences, FiniteSets, TLC

(***************************************************************************)
(* Program constants.                                                      *)
(***************************************************************************)
BottomTolerance == 1

Max2(a, b) == IF a >= b THEN a ELSE b
Min2(a, b) == IF a <= b THEN a ELSE b
Abs(a) == IF a < 0 THEN -a ELSE a

(***************************************************************************)
(* Values.  Records keep one shape so that any two can be compared; a      *)
(* field that JavaScript would leave undefined holds None (strings) or     *)
(* NoHtml / NoMessage / NoDetails.                                         *)
(***************************************************************************)
None == "none"

NoHtml == [present |-> FALSE, value |-> None]
OuterHtml == [present |-> TRUE, value |-> "outerHTML"]
NoMessage == [kind |-> None, direction |-> None, by |-> 0]

NoDetails ==
  [present |-> FALSE, error |-> None,
   scrolled |-> FALSE, startPosition |-> 0, endPosition |-> 0,
   requestedChange |-> 0, actualChange |-> 0,
   isAtBottom |-> FALSE, isAtTop |-> FALSE,
   maxScroll |-> 0, viewportHeight |-> 0, documentHeight |-> 0,
   clicked |-> FALSE, selector |-> None, element |-> None, text |-> None,
   screenshot |-> None, html |-> NoHtml]

EmptyDetails == [NoDetails EXCEPT !.present = TRUE]

\* A message answered over the channel: {success, details?, error?}.
NoResponse == [present |-> FALSE, success |-> FALSE, details |-> NoDetails, error |-> None]
Response(ok, det, err) == [present |-> TRUE, success |-> ok, details |-> det, error |-> err]

\* What a dispatch resolves with.
NoResult ==
  [success |-> FALSE, error |-> None, echo |-> FALSE, details |-> NoDetails,
   message |-> NoMessage, screenshot |-> None, html |-> NoHtml]

(***************************************************************************)
(* Actions the Relay may hand to the Dispatcher.                           *)
(***************************************************************************)
Elements == {"#btn", "#input", "#area", "#div", "#submit"}
Texts == {"hello", ""}
PixelChoices == {100, 1999}

\* element_data is the selector of the action's element descriptor, None when
\* the action carries no element_data; selector is the flat locator.
MkAction(kind, dir, px, sel, ed, txt, key) ==
  [action |-> kind, direction |-> dir, pixels |-> px,
   selector |-> sel, element_data |-> ed, text |-> txt, key |-> key]

NoAction == MkAction(None, None, 0, None, None, None, None)

ScrollActions ==
  {MkAction("scroll", d, p, None, None, None, None) : d \in {"up", "down"}, p \in PixelChoices}
ClickActions ==
  {MkAction("click", None, 0, None, s, None, None) : s \in {"#btn", "#submit", "#missing"}}
    \cup {MkAction("click", None, 0, "#missing", None, None, None)}
TypeActions ==
  {MkAction("type", None, 0, None, s, t, None) : s \in {"#input", "#div", "#missing", None}, t \in Texts}
OtherActions ==
  {MkAction("wait", None, 0, None, None, None, None),
   MkAction("keypress", None, 0, None, None, None, "Enter")}
Actions == ScrollActions \cup ClickActions \cup TypeActions \cup OtherActions

(***************************************************************************)
(* Tabs.  Tab id 0 is a missing id, 1 the tab under test, 2 a closed tab.  *)
(***************************************************************************)
TabIds == {0, 1, 2}
UrlKinds == {"https", "chrome", "chrome-extension", None}

\* background.ts isAccessibleUrl, with the !tab.url test of its callers.
isAccessibleUrl(url) == url # "chrome" /\ url # "chrome-extension"
Privileged(url) == url = None \/ ~isAccessibleUrl(url)

(***************************************************************************)
(* Page geometry: the six height readings handleScroll takes, and the      *)
(* viewport height.  The window itself scrolls over the root element's     *)
(* scroll height only.                                                     *)
(***************************************************************************)
Geometries ==
  { \* an ordinary tall page, all readings agree
    [bodyScrollHeight |-> 2800, deScrollHeight |-> 2800, bodyOffsetHeight |-> 2800,
     deOffsetHeight |-> 2800, bodyClientHeight |-> 2800, deClientHeight |-> 800,
     innerHeight |-> 800],
    \* a page shorter than the viewport
    [bodyScrollHeight |-> 300, deScrollHeight |-> 800, bodyOffsetHeight |-> 300,
     deOffsetHeight |-> 300, bodyClientHeight |-> 300, deClientHeight |-> 800,
     innerHeight |-> 800],
    \* html/body of viewport height with the content scrolling inside body:
    \* body reports the content height, the window cannot scroll
    [bodyScrollHeight |-> 1800, deScrollHeight |-> 800, bodyOffsetHeight |-> 800,
     deOffsetHeight |-> 800, bodyClientHeight |-> 800, deClientHeight |-> 800,
     innerHeight |-> 800] }

\* The range the window can really scroll over (CSSOM: the root's scroll
\* height less the viewport), and what window.scrollTo({top}) leaves in
\* window.scrollY once the smooth scroll has settled.
ScrollRange(g) == Max2(0, g.deScrollHeight - g.innerHeight)
WindowScrollTo(top, g) == Max2(0, Min2(top, ScrollRange(g)))

(***************************************************************************)
(* Executor: handleScroll(direction, pixels).                              *)
(***************************************************************************)
DocumentHeight(g) ==
  Max2(g.bodyScrollHeight,
  Max2(g.deScrollHeight,
  Max2(g.bodyOffsetHeight,
  Max2(g.deOffsetHeight,
  Max2(g.bodyClientHeight, g.deClientHeight)))))

MaxScroll(g) == DocumentHeight(g) - g.innerHeight

\* Mutation: the sign of an upward scroll is lost.
ScrollAmountUnsigned(direction, pixels) == pixels

ScrollAmount(direction, pixels) == IF direction = "down" THEN pixels ELSE -pixels

TargetPosition(startPosition, direction, pixels, g) ==
  Max2(0, Min2(startPosition + ScrollAmount(direction, pixels), MaxScroll(g)))

\* Mutation: only the top limit is detected.
AtScrollLimitTopOnly(direction, startPosition, g) ==
  direction = "up" /\ startPosition <= 0

AtScrollLimit(direction, startPosition, g) ==
  \/ direction = "up" /\ startPosition <= 0
  \/ direction = "down" /\ startPosition >= MaxScroll(g)

\* The response of the "already at the limit" branch.
LimitResponse(direction, pixels, startPosition, g) ==
  Response(TRUE,
    [EmptyDetails EXCEPT
       !.scrolled = FALSE,
       !.startPosition = startPosition,
       !.endPosition = startPosition,
       !.requestedChange = ScrollAmount(direction, pixels),
       !.actualChange = 0,
       !.isAtBottom = (startPosition >= MaxScroll(g)),
       !.isAtTop = (startPosition <= 0),
       !.maxScroll = MaxScroll(g),
       !.viewportHeight = g.innerHeight,
       !.documentHeight = DocumentHeight(g)],
    None)

\* Mutation: the measured scroll succeeds only if the page moved.
MeasureResponseByMovement(direction, pixels, startPosition, endPosition, g) ==
  LET actualChange == endPosition - startPosition IN
  Response(actualChange # 0,
    [EmptyDetails EXCEPT
       !.scrolled = (actualChange # 0),
       !.startPosition = startPosition,
       !.endPosition = endPosition,
       !.requestedChange = ScrollAmount(direction, pixels),
       !.actualChange = actualChange,
       !.isAtBottom = (endPosition >= MaxScroll(g) - BottomTolerance),
       !.isAtTop = (endPosition <= 0),
       !.maxScroll = MaxScroll(g),
       !.viewportHeight = g.innerHeight,
       !.documentHeight = DocumentHeight(g)],
    None)

\* The response of the timer that samples window.scrollY after the scroll.
MeasureResponse(direction, pixels, startPosition, endPosition, g) ==
  LET actualChange == endPosition - startPosition IN
  Response(TRUE,
    [EmptyDetails EXCEPT
       !.scrolled = (actualChange # 0),
       !.startPosition = startPosition,
       !.endPosition = endPosition,
       !.requestedChange = ScrollAmount(direction, pixels),
       !.actualChange = actualChange,
       !.isAtBottom = (endPosition >= MaxScroll(g) - BottomTolerance),
       !.isAtTop = (endPosition <= 0),
       !.maxScroll = MaxScroll(g),
       !.viewportHeight = g.innerHeight,
       !.documentHeight = DocumentHeight(g)],
    None)

(***************************************************************************)
(* Executor: handleClick(element_data) and the listener's .catch.          *)
(***************************************************************************)
querySelector(sel) == IF sel \in Elements THEN sel ELSE None

ErrNoElementData == "Cannot destructure property 'selector' of 'element_data'"
ErrElementNotFound == "Element not found with selector"

\* The error handleClick rejects with before any click, None when it goes on.
ClickRejection(action) ==
  IF action.element_data = None THEN ErrNoElementData
  ELSE IF querySelector(action.element_data) = None THEN ErrElementNotFound
  ELSE None

\* .catch of the listener: {success: false, error: error.message}.
ClickErrorResponse(msg) == Response(FALSE, NoDetails, msg)

ClickResponse(action) ==
  Response(TRUE,
    [EmptyDetails EXCEPT !.clicked = TRUE, !.selector = action.element_data],
    None)

(***************************************************************************)
(* Executor: handleTypeAction(data).                                       *)
(***************************************************************************)
ErrCannotAcceptText == "Target element cannot accept text input"

TagName(el) ==
  IF el = "#area" THEN "textarea"
  ELSE IF el \in {"#input", "#submit"} THEN "input"
  ELSE IF el = "#btn" THEN "button"
  ELSE IF el = "#div" THEN "div"
  ELSE "body"

\* instanceof HTMLInputElement || instanceof HTMLTextAreaElement
AcceptsText(el) == TagName(el) \in {"input", "textarea"}

\* The element the text goes to: the descriptor's if one is given, else the
\* focused one; None when the selector matches nothing.
TypeTarget(action, activeElement) ==
  IF action.element_data # None THEN querySelector(action.element_data)
  ELSE activeElement

\* Mutation: only a locator that matches nothing is rejected; any element
\* found is typed into.
TypeRejectionLocatorOnly(action, activeElement) ==
  IF action.element_data # None /\ querySelector(action.element_data) = None
    THEN ErrElementNotFound
  ELSE None

\* Mutation: an action without a non-empty text is rejected as malformed.
TypeRejectionRequiresText(action, activeElement) ==
  IF action.text = "" THEN "Type action requires selector and text"
  ELSE IF action.element_data # None /\ querySelector(action.element_data) = None
    THEN ErrElementNotFound
  ELSE IF ~AcceptsText(TypeTarget(action, activeElement))
    THEN ErrCannotAcceptText
  ELSE None

\* The failure handleTypeAction returns before touching the page, None if it
\* goes on to type.
TypeRejection(action, activeElement) ==
  IF action.element_data # None /\ querySelector(action.element_data) = None
    THEN ErrElementNotFound
  ELSE IF ~AcceptsText(TypeTarget(action, activeElement))
    THEN ErrCannotAcceptText
  ELSE None

TypeErrorResponse(msg) == Response(FALSE, [EmptyDetails EXCEPT !.error = msg], None)

TypeResponse(action, target) ==
  Response(TRUE,
    [EmptyDetails EXCEPT
       !.element = TagName(target),
       !.selector = action.element_data,
       !.text = action.text],
    None)

\* The listener's last branch: an action it has no handler for.
ErrUnknownAction == "Unknown action type"
UnknownActionResponse == Response(FALSE, [EmptyDetails EXCEPT !.error = ErrUnknownAction], None)

(***************************************************************************)
(* Dispatcher: handleGetPageState(tabId).  Its try/catch turns every       *)
(* failure of tabs.get, captureVisibleTab or executeScript into a          *)
(* returned {success: false, error}; the promise never rejects.            *)
(***************************************************************************)
CaptureOutcomes == {"ok", "tab_throws", "screenshot_throws", "html_throws"}

ErrNoTab == "No tab with id"
ErrCaptureVisibleTab == "Failed to capture tab"
ErrExecuteScript == "Cannot access contents of the page"

CaptureErrorMessage(outcome) ==
  IF outcome = "tab_throws" THEN ErrNoTab
  ELSE IF outcome = "screenshot_throws" THEN ErrCaptureVisibleTab
  ELSE ErrExecuteScript

\* Mutation: a DOM read that throws is answered with the screenshot alone.
handleGetPageStatePartial(outcome) ==
  IF outcome \in {"ok", "html_throws"}
    THEN [success |-> TRUE, error |-> None, screenshot |-> "jpeg",
          html |-> IF outcome = "ok" THEN OuterHtml ELSE NoHtml]
    ELSE [success |-> FALSE, error |-> CaptureErrorMessage(outcome),
          screenshot |-> None, html |-> NoHtml]

handleGetPageState(outcome) ==
  IF outcome = "ok"
    THEN [success |-> TRUE, error |-> None, screenshot |-> "jpeg", html |-> OuterHtml]
    ELSE [success |-> FALSE, error |-> CaptureErrorMessage(outcome),
          screenshot |-> None, html |-> NoHtml]

(***************************************************************************)
(* Dispatcher: the callback of the forwarded EXECUTE_ACTION                *)
(* (handleExecuteAction, background.ts 233-387).                           *)
(***************************************************************************)
ErrNoTabId == "No tab ID provided"
ErrNoReceiver == "Could not establish connection. Receiving end does not exist."
ErrPortClosed == "The message port closed before a response was received."
ErrInjection == "Cannot access contents of the page (injection)"
ErrNoResponse == "No response from content script"
ErrScrollNoDetails == "Invalid scroll response format: missing details"

Fail(err) == [NoResult EXCEPT !.success = FALSE, !.error = err]

\* resolve(response): the Executor's answer handed on as it is.
RawResult(response) ==
  [NoResult EXCEPT !.success = response.success, !.error = response.error,
                   !.details = response.details]

\* Mutation: the zero-change test comes first in the if-chain.
ScrollMessageZeroFirst(action, details) ==
  IF ~details.scrolled \/ details.actualChange = 0
    THEN [kind |-> "No scroll needed or possible", direction |-> None, by |-> 0]
  ELSE IF action.direction = "up" /\ details.isAtTop
    THEN [kind |-> "Already at the top of the page", direction |-> None, by |-> 0]
  ELSE IF action.direction = "down" /\ details.isAtBottom
    THEN [kind |-> "Already at the bottom of the page", direction |-> None, by |-> 0]
  ELSE [kind |-> "Scrolled", direction |-> action.direction,
        by |-> Abs(details.actualChange)]

\* The message of a successful scroll, by the order of the if-chain.
ScrollMessage(action, details) ==
  IF action.direction = "up" /\ details.isAtTop
    THEN [kind |-> "Already at the top of the page", direction |-> None, by |-> 0]
  ELSE IF action.direction = "down" /\ details.isAtBottom
    THEN [kind |-> "Already at the bottom of the page", direction |-> None, by |-> 0]
  ELSE IF ~details.scrolled \/ details.actualChange = 0
    THEN [kind |-> "No scroll needed or possible", direction |-> None, by |-> 0]
  ELSE [kind |-> "Scrolled", direction |-> action.direction,
        by |-> Abs(details.actualChange)]

ScrollResult(action, response) ==
  IF response.success /\ response.details.present
    THEN [NoResult EXCEPT !.success = TRUE, !.echo = TRUE,
                          !.details = response.details,
                          !.message = ScrollMessage(action, response.details)]
  ELSE IF response.error # None THEN Fail(response.error)
  ELSE Fail(ErrScrollNoDetails)

FallbackError(kind) ==
  IF kind = "click" THEN "Click action failed"
  ELSE IF kind = "type" THEN "Type action failed"
  ELSE "Wait action failed"

\* error: response.details?.error || '<Kind> action failed'
FailedActionResult(kind, response) ==
  Fail(IF response.details.present /\ response.details.error # None
         THEN response.details.error
         ELSE FallbackError(kind))

\* .then(pageState => resolve({...pageState, details: {...response.details,
\*        screenshot: pageState.screenshot, html: pageState.html}}))
Enriched(response, pageState) ==
  [NoResult EXCEPT
     !.success = pageState.success,
     !.error = pageState.error,
     !.screenshot = pageState.screenshot,
     !.html = pageState.html,
     !.details = [response.details EXCEPT !.present = TRUE,
                                          !.screenshot = pageState.screenshot,
                                          !.html = pageState.html]]

\* What one run of the callback does: the resolve calls it makes before it
\* returns, in order, and whether it has started a page-state capture whose
\* .then will call resolve later.  The type branch does not return, so it
\* runs on into the default resolve(response).
Plan(resolves, capture) == [resolves |-> resolves, capture |-> capture]

\* The callback from its scroll branch on: the Executor's answer is there.
OnAnswer(action, response) ==
  IF action.action = "scroll" THEN Plan(<<ScrollResult(action, response)>>, FALSE)
  ELSE IF action.action = "click" THEN
    IF response.success THEN Plan(<< >>, TRUE)
    ELSE Plan(<<FailedActionResult("click", response)>>, FALSE)
  ELSE IF action.action = "type" THEN
    IF response.success THEN Plan(<<RawResult(response)>>, TRUE)
    ELSE Plan(<<FailedActionResult("type", response), RawResult(response)>>, FALSE)
  ELSE IF action.action = "wait" THEN
    IF response.success THEN Plan(<< >>, TRUE)
    ELSE Plan(<<FailedActionResult("wait", response)>>, FALSE)
  ELSE Plan(<<RawResult(response)>>, FALSE)

\* Mutation: the callback does not look at chrome.runtime.lastError.
OnResponseIgnoresLastError(action, response, lastError) ==
  IF ~response.present THEN Plan(<<Fail(ErrNoResponse)>>, FALSE)
  ELSE OnAnswer(action, response)

\* The callback of the forward: a transport error returns its own message,
\* a missing answer 'No response from content script'.
OnResponse(action, response, lastError) ==
  IF lastError # None THEN Plan(<<Fail(lastError)>>, FALSE)
  ELSE IF ~response.present THEN Plan(<<Fail(ErrNoResponse)>>, FALSE)
  ELSE OnAnswer(action, response)

(***************************************************************************)
(* Relay: the side panel (README.md).  What the controller sends over the  *)
(* WebSocket as the data of an 'action' message, and what the Relay makes  *)
(* of it.                                                                  *)
(***************************************************************************)
\* The Actions the modelled controller asks for: kinds the Relay dispatches
\* (a keypress is one the Executor refuses), the complete action and a kind
\* the Relay does not know.
DirectiveActions ==
  {MkAction("scroll", "down", 1999, None, None, None, None),
   MkAction("click", None, 0, None, "#btn", None, None),
   MkAction("type", None, 0, None, "#input", "hello", None),
   MkAction("keypress", None, 0, None, None, None, "Enter"),
   MkAction("complete", None, 0, None, None, None, None),
   MkAction("hover", None, 0, None, "#btn", None, None)}

\* message.data given flat: the Action's own fields, no tool, no input.
Flat(a) == [tool |-> None, input |-> NoAction] @@ a

\* message.data given as {tool: 'executor', input: Action}.
Nested(a) == [tool |-> "executor", input |-> a] @@ NoAction

Payloads == {Flat(a) : a \in DirectiveActions} \cup {Nested(a) : a \in DirectiveActions}
NoPayload == Flat(NoAction)

\* message.data read as an Action, as the branches of the handler read it.
ActionOf(d) ==
  MkAction(d.action, d.direction, d.pixels, d.selector, d.element_data, d.text, d.key)

\* Mutation: the executor envelope is not unwrapped.
NormalizeFlatOnly(d) == ActionOf(d)

\* if (actionData.tool === 'executor' && actionData.input)
\*   actionData = actionData.input
Normalize(d) ==
  IF d.tool = "executor" /\ d.input # NoAction THEN d.input ELSE ActionOf(d)

KnownKinds == {"scroll", "click", "type", "keypress", "wait"}

\* Mutation: the handler has no branch for the complete action.
RouteWithoutComplete(actionData) ==
  IF actionData.action \in KnownKinds THEN "dispatch" ELSE "unknown"

\* The if-chain on actionData.action: complete ends the task, the five
\* known kinds are dispatched, anything else is an unknown action.
Route(actionData) ==
  IF actionData.action = "complete" THEN "complete"
  ELSE IF actionData.action \in KnownKinds THEN "dispatch"
  ELSE "unknown"

\* The action object each branch builds for the Dispatcher: the fields of
\* its kind, picked from actionData (the click's element label and the
\* wait's duration are carried too and read by nobody).
BuildAction(actionData) ==
  IF actionData.action = "scroll"
    THEN MkAction("scroll", actionData.direction, actionData.pixels, None, None, None, None)
  ELSE IF actionData.action = "click"
    THEN MkAction("click", None, 0, None, actionData.element_data, None, None)
  ELSE IF actionData.action = "type"
    THEN MkAction("type", None, 0, None, actionData.element_data, actionData.text, None)
  ELSE IF actionData.action = "keypress"
    THEN MkAction("keypress", None, 0, None, None, None, actionData.key)
  ELSE MkAction("wait", None, 0, None, None, None, None)

ExecuteMessage(actionData, t) ==
  [type |-> "EXECUTE_ACTION", action |-> BuildAction(actionData), tabId |-> t]

\* testScroll's action: sent without a tabId.
TestScrollAction == MkAction("scroll", "down", 100, None, None, None, None)

ErrNoActiveTabFound == "No active tab found"
ErrUnknownDirective == "Unknown action type: hover"
ErrActionFailed == "Action failed"
ErrPageState == "Failed to get page state"

\* wsRef.current.send(data) by the socket's readyState: sent when OPEN,
\* InvalidStateError when CONNECTING, dropped when CLOSING (after close()
\* on an open or a connecting socket) or CLOSED.
WsSend(sock) ==
  IF sock = "open" THEN "delivered"
  ELSE IF sock = "connecting" THEN "throws"
  ELSE "discarded"

\* The acknowledgments of handleActionResult.
NoAck ==
  [present |-> FALSE, success |-> FALSE, screenshot |-> None, html |-> NoHtml,
   error |-> None]
OkAck(pageState) ==
  [present |-> TRUE, success |-> TRUE, screenshot |-> pageState.screenshot,
   html |-> pageState.html, error |-> None]
ErrorAck(err) ==
  [present |-> TRUE, success |-> FALSE, screenshot |-> None, html |-> NoHtml,
   error |-> err]

\* What the Relay has done for the action in hand: where it came from, the
\* EXECUTE_ACTION messages sent for it, the result it got, the capture that
\* followed, the socket state at the acknowledgment, the acknowledgments
\* that left, the error messages appended to the chat, and whether
\* handleActionResult ended in an exception; and, of all EXECUTE_ACTION
\* messages of the Relay, how many have no result yet, whether one of the
\* Test Scroll button is among them, and how the last of those was
\* acknowledged.
NoRelay ==
  [origin |-> None, sent |-> 0, sentAfterStop |-> FALSE, outcome |-> None,
   captured |-> None, wsAtAck |-> None, acks |-> 0, ack |-> NoAck,
   shown |-> 0, threw |-> FALSE,
   outstanding |-> 0, testPending |-> FALSE, testAck |-> None]

\* Mutation: a failed action is shown and not acknowledged.
ActionFailedUnacknowledged(r, err, sock) ==
  [r EXCEPT !.outcome = "failed", !.wsAtAck = sock, !.shown = @ + 1]

\* handleActionResult, else branch: send {success: false, error}, then
\* append the error message.  A throwing send leaves before the append.
ActionFailed(r, err, sock) ==
  [r EXCEPT !.outcome = "failed",
            !.wsAtAck = sock,
            !.acks = IF WsSend(sock) = "delivered" THEN @ + 1 ELSE @,
            !.ack = IF WsSend(sock) = "delivered"
                      THEN ErrorAck(IF err = None THEN ErrActionFailed ELSE err)
                      ELSE @,
            !.threw = (WsSend(sock) = "throws"),
            !.shown = IF WsSend(sock) = "throws" THEN @ ELSE @ + 1]

\* handleActionResult, success branch after its capture: the page state is
\* sent on, or, when the capture failed, its error from the catch.  A send
\* that throws in the try throws again in the catch.
ActionSucceeded(r, pageState, sock) ==
  [r EXCEPT !.captured = IF pageState.success THEN "ok" ELSE "failed",
            !.wsAtAck = sock,
            !.acks = IF WsSend(sock) = "delivered" THEN @ + 1 ELSE @,
            !.ack = IF WsSend(sock) # "delivered" THEN @
                    ELSE IF pageState.success THEN OkAck(pageState)
                    ELSE ErrorAck(IF pageState.error = None THEN ErrPageState
                                  ELSE pageState.error),
            !.threw = (WsSend(sock) = "throws")]

(***************************************************************************)
(* The clock of the captures.                                              *)
(***************************************************************************)
MIN_SCREENSHOT_INTERVAL == 1000
RelaySettleMs == 750

\* Time passes in steps of the Relay's wait before its capture, or of a
\* whole interval.
Elapses == {RelaySettleMs, MIN_SCREENSHOT_INTERVAL}

\* The capture served last: how long after the screenshot before it, and
\* what it returned.
NoCapture ==
  [served |-> FALSE, call |-> None, gap |-> 0, success |-> FALSE,
   error |-> None, screenshot |-> None, html |-> NoHtml]

(***************************************************************************)
(* Dispatcher: getPageState(tabId), the capture that is rate limited.      *)
(***************************************************************************)
ErrInaccessiblePage == "Cannot access this type of page. Please try on a regular webpage."

\* The clock is followed up to this reading.
MaxNow == 5000

\* currentTime - lastScreenshotTime < MIN_SCREENSHOT_INTERVAL
RateLimited(currentTime, last) == currentTime - last < MIN_SCREENSHOT_INTERVAL

\* Mutation: the timestamp is taken whether or not the screenshot call
\* returned.
StampAlways(shotOk, stamp, t) == t

\* lastScreenshotTime after captureVisibleTab: Date.now() when the call
\* returned, as it was when the call threw.
StampAfter(shotOk, stamp, t) == IF shotOk THEN t ELSE stamp

\* The catch of getPageState.
PageStateFailure(msg) ==
  [success |-> FALSE, error |-> msg, screenshot |-> None, html |-> NoHtml]

\* The rate-limited return: no screenshot, the html of getPageHtml.
LimitedPageState(htmlOk) ==
  IF htmlOk
    THEN [success |-> TRUE, error |-> None, screenshot |-> None, html |-> OuterHtml]
    ELSE PageStateFailure(ErrExecuteScript)

\* The full return: the png of captureVisibleTab, then the html.
FullPageState(shotOk, htmlOk) ==
  IF ~shotOk THEN PageStateFailure(ErrCaptureVisibleTab)
  ELSE IF ~htmlOk THEN PageStateFailure(ErrExecuteScript)
  ELSE [success |-> TRUE, error |-> None, screenshot |-> "png", html |-> OuterHtml]

(***************************************************************************)
(* State.                                                                  *)
(***************************************************************************)
VARIABLES
  tabUrl,         \* URL scheme of tab 1 (None: the tab reports no URL)
  geom,           \* the page's height readings
  scrollY,        \* window.scrollY of the page
  listeners,      \* Executor message listeners registered in the page
  activeElement,  \* document.activeElement ("body" when nothing has focus)
  values,         \* value of each text control of the page
  dpc,            \* where handleExecuteAction stands
  action,         \* its action argument
  tabId,          \* its tabId argument
  response,       \* the Executor's answer to the forwarded action
  lastError,      \* chrome.runtime.lastError in the callback
  result,         \* what the promise of the dispatch settled with
  settled,        \* whether it has settled
  cnt,            \* what this dispatch has done so far
  epc,            \* where the Executor stands in the action it runs
  startPosition,  \* handleScroll's startPosition while its timer is pending
  ws,             \* readyState of the socket in wsRef.current
  task,           \* the controller's task: none, active, stopped or done
  isExecuting,    \* the Relay's isExecuting
  rpc,            \* where the Relay stands with the action in hand
  spc,            \* where handleSubmit stands
  kpc,            \* where handleStop stands
  payload,        \* message.data of the action message in hand
  rel,            \* what the Relay has done for the action in hand
  sinceScreenshot,\* ms since the last screenshot, up to the minimum interval
  lastCapture,    \* the capture served last
  now,            \* Date.now() of the background script
  lastScreenshotTime, \* its lastScreenshotTime
  gpc,            \* where getPageState stands
  dpc2            \* where a second, overlapping handleExecuteAction stands

vars == <<tabUrl, geom, scrollY, listeners, activeElement, values, dpc, action,
          tabId, response, lastError, result, settled, cnt, epc, startPosition,
          ws, task, isExecuting, rpc, spc, kpc, payload, rel,
          sinceScreenshot, lastCapture, now, lastScreenshotTime, gpc,
          dpc2>>

pageVars == <<scrollY, listeners, activeElement, values, epc, startPosition>>
dispVars == <<dpc, action, tabId, response, lastError, result, settled, cnt>>
relayVars == <<ws, task, isExecuting, rpc, spc, kpc, payload, rel>>
limiterVars == <<now, lastScreenshotTime, gpc>>
timeVars == <<sinceScreenshot, lastCapture, limiterVars>>
outerVars == <<relayVars, timeVars, dpc2>>

NoCounts ==
  [pings |-> 0, injections |-> 0, forwards |-> 0, captures |-> 0,
   scrollCalls |-> 0, clicks |-> 0, submits |-> 0, resolves |-> 0,
   capturesAtSettle |-> 0, events |-> << >>,
   ping |-> None, inject |-> None, capture |-> None, scrollTarget |-> 0,
   receives |-> 0, responses |-> 0, appended |-> 0]

FreshValues == [e \in {"#input", "#area"} |-> ""]

\* The side panel as it mounts: connectWebSocket has made its socket, no
\* task, nothing in hand; no screenshot has been taken yet.
InitOuter ==
  /\ ws = "connecting"
  /\ task = "none"
  /\ isExecuting = FALSE
  /\ rpc = "idle"
  /\ spc = "idle"
  /\ kpc = "idle"
  /\ payload = NoPayload
  /\ rel = NoRelay
  /\ sinceScreenshot = MIN_SCREENSHOT_INTERVAL
  /\ lastCapture = NoCapture
  /\ now = MIN_SCREENSHOT_INTERVAL
  /\ lastScreenshotTime = 0
  /\ gpc = "idle"
  /\ dpc2 = "idle"

Init ==
  /\ tabUrl \in UrlKinds
  /\ geom \in Geometries
  /\ scrollY = 0
  /\ listeners \in (IF Privileged(tabUrl) THEN {0} ELSE {0, 1})
  /\ activeElement \in {"body", "#input"}
  /\ values = FreshValues
  /\ dpc = "idle"
  /\ action = NoAction
  /\ tabId = 0
  /\ response = NoResponse
  /\ lastError = None
  /\ result = NoResult
  /\ settled = FALSE
  /\ cnt = NoCounts
  /\ epc = "idle"
  /\ startPosition = 0
  /\ InitOuter

\* The resolve calls rs made in one step, on top of the counts c: the promise
\* keeps the first value it is resolved with.
Settle(rs, c) ==
  /\ result' = IF settled \/ Len(rs) = 0 THEN result ELSE rs[1]
  /\ settled' = (settled \/ Len(rs) > 0)
  /\ cnt' = [c EXCEPT !.resolves = @ + Len(rs),
                      !.capturesAtSettle =
                         IF ~settled /\ Len(rs) > 0 THEN c.captures ELSE @]

(***************************************************************************)
(* Dispatcher: handleExecuteAction(action, tabId).                         *)
(***************************************************************************)
\* handleExecuteAction(a, t) up to its first await; a missing tab id returns
\* at once.
handleExecuteAction(a, t) ==
  /\ dpc \in {"idle", "done"}
  /\ action' = a
  /\ tabId' = t
  /\ response' = NoResponse
  /\ lastError' = None
  /\ IF t = 0
       THEN /\ result' = Fail(ErrNoTabId)
            /\ settled' = TRUE
            /\ cnt' = [NoCounts EXCEPT !.resolves = 1]
            /\ dpc' = "done"
       ELSE /\ result' = NoResult
            /\ settled' = FALSE
            /\ cnt' = NoCounts
            /\ dpc' = "tabs_get"
  /\ UNCHANGED <<tabUrl, geom, pageVars>>

\* The onMessage listener gets an EXECUTE_ACTION message from any sender.
Dispatch(a, t) ==
  /\ handleExecuteAction(a, t)
  /\ UNCHANGED outerVars

\* Mutation: the handler forwards the action without the PING.
AfterTabsGetSkipsProbe(found) == IF found THEN "forward" ELSE "done"

\* Mutation: the handler goes on to the PING whether or not the tab exists.
AfterTabsGetIgnored(found) == "ping"

\* Where the handler goes after chrome.tabs.get: on to the PING, or, when
\* the call threw, out through the outer catch.
AfterTabsGet(found) == IF found THEN "ping" ELSE "done"

\* await chrome.tabs.get(tabId): throws for a tab that does not exist, and
\* the outer catch returns the error.
TabsGet ==
  /\ dpc = "tabs_get"
  /\ dpc' = AfterTabsGet(tabId = 1)
  /\ IF tabId = 1
       THEN UNCHANGED <<result, settled, cnt>>
       ELSE Settle(<<Fail(ErrNoTab)>>, cnt)
  /\ UNCHANGED <<tabUrl, geom, pageVars, action, tabId, response, lastError>>
  /\ UNCHANGED outerVars

\* Mutation: a failed PING is ignored and the action forwarded.
AfterPingNoRecovery(acked) == "forward"

\* try { await PING } catch { inject }: where the handler goes on a PING that
\* was, or was not, acknowledged.
AfterPing(acked) == IF acked THEN "forward" ELSE "inject"

\* Mutation: the PING branch logs through logger.log, which appends a node
\* to the page for each call.
PingBranchLogged == [reply |-> "ready", appended |-> 2]

\* The listener's PING branch: console.log and sendResponse({status:
\* 'ready'}); nothing of the page is touched.
PingBranch == [reply |-> "ready", appended |-> 0]

\* Mutation: the page is taken to have an Executor without asking it.
ProbeAckedAssumed(n) == TRUE

\* Whether the PING is acknowledged: by a listener the page has now.
ProbeAcked(n) == n > 0

\* await chrome.tabs.sendMessage(tabId, {type: 'PING'}): answered by a
\* listener of the page, rejected when the page has none.  The await has
\* no timer beside it: while the page's thread is taken the listener does
\* not run and the promise stays pending.
Ping ==
  /\ dpc = "ping"
  /\ ~(listeners > 0 /\ epc = "busy")
  /\ cnt' = [cnt EXCEPT !.pings = @ + 1,
                        !.ping = IF ProbeAcked(listeners) THEN PingBranch.reply ELSE "failed",
                        !.appended = @ + (IF ProbeAcked(listeners)
                                            THEN PingBranch.appended ELSE 0)]
  /\ dpc' = AfterPing(ProbeAcked(listeners))
  /\ UNCHANGED <<tabUrl, geom, pageVars, action, tabId, response, lastError,
                 result, settled>>
  /\ UNCHANGED outerVars

\* Mutation: a throwing injection is swallowed and the action forwarded.
AfterInjectSwallowed(ok) == "forward"

\* Where the handler goes after the injection: on to the forward, or, when
\* executeScript threw, out through the outer catch.
AfterInject(ok) == IF ok THEN "forward" ELSE "done"

\* catch of the PING: await chrome.scripting.executeScript(content.js), then
\* the settle timer.  The injection throws on a page scripts may not enter,
\* and may throw on any page; the outer catch then returns the error.
Inject ==
  /\ dpc = "inject"
  /\ \E ok \in BOOLEAN :
       /\ ok => ~Privileged(tabUrl)
       /\ dpc' = AfterInject(ok)
       /\ IF ok
            THEN /\ listeners' = listeners + 1
                 /\ cnt' = [cnt EXCEPT !.injections = @ + 1, !.inject = "ok"]
                 /\ UNCHANGED <<result, settled>>
            ELSE /\ listeners' = listeners
                 /\ Settle(<<Fail(ErrInjection)>>,
                           [cnt EXCEPT !.injections = @ + 1, !.inject = "threw"])
  /\ UNCHANGED <<tabUrl, geom, scrollY, activeElement, values, epc, startPosition,
                 action, tabId, response, lastError>>
  /\ UNCHANGED outerVars

\* chrome.tabs.sendMessage(tabId, {type: 'EXECUTE_ACTION', action}, callback)
Forward ==
  /\ dpc = "forward"
  /\ cnt' = [cnt EXCEPT !.forwards = @ + 1]
  /\ dpc' = "forwarded"
  /\ UNCHANGED <<tabUrl, geom, pageVars, action, tabId, response, lastError,
                 result, settled>>
  /\ UNCHANGED outerVars

\* The forwarded message finds no listener in the page: the callback runs
\* with chrome.runtime.lastError set.
DeliverFail ==
  /\ dpc = "forwarded"
  /\ listeners = 0
  /\ lastError' = ErrNoReceiver
  /\ dpc' = "callback"
  /\ UNCHANGED <<tabUrl, geom, pageVars, action, tabId, response, result, settled, cnt>>
  /\ UNCHANGED outerVars

(***************************************************************************)
(* Executor: the onMessage listener, EXECUTE_ACTION branch.                *)
(***************************************************************************)
\* logger.log, logger.error and the click and type indicators each append
\* one node to the page: n more nodes on top of the counts c.
Logged(c, n) == [c EXCEPT !.appended = @ + n]

\* Mutation: the listener's sendResponse call is lost.
RespondDropped(r, c) ==
  /\ response' = response
  /\ dpc' = dpc
  /\ cnt' = c

\* sendResponse(r), called by each listener that received the message: the
\* Dispatcher's callback becomes runnable with the first answer.
Respond(r, c) ==
  /\ response' = r
  /\ dpc' = "callback"
  /\ cnt' = [c EXCEPT !.responses = @ + c.receives]

RECURSIVE Times(_, _)
\* s repeated n times.
Times(s, n) == IF n = 0 THEN << >> ELSE s \o Times(s, n - 1)

\* Every registered listener receives the action and runs the handler up to
\* its first timer (or to its answer, when it answers without waiting).  The
\* listeners are called one after the other in the same task and their timers
\* have the same delay, so their handlers run side by side.
ExecReceive ==
  /\ dpc = "forwarded"
  /\ listeners > 0
  /\ epc = "idle"
  /\ LET c == [cnt EXCEPT !.receives = @ + listeners] IN
     IF action.action = "scroll" THEN
       IF AtScrollLimit(action.direction, scrollY, geom)
         THEN /\ Respond(LimitResponse(action.direction, action.pixels, scrollY, geom),
                         Logged(c, 3 * listeners))
              /\ UNCHANGED <<scrollY, epc, startPosition>>
         ELSE /\ scrollY' = WindowScrollTo(
                    TargetPosition(scrollY, action.direction, action.pixels, geom), geom)
              /\ startPosition' = scrollY
              /\ cnt' = [Logged(c, listeners) EXCEPT
                           !.scrollCalls = @ + listeners,
                           !.scrollTarget =
                              TargetPosition(scrollY, action.direction, action.pixels, geom)]
              /\ epc' = "scroll_timer"
              /\ UNCHANGED <<response, dpc>>
     ELSE IF action.action = "click" THEN
       IF ClickRejection(action) # None
         THEN /\ Respond(ClickErrorResponse(ClickRejection(action)),
                         Logged(c, 3 * listeners))
              /\ UNCHANGED <<scrollY, epc, startPosition>>
         ELSE /\ epc' = "click_timer"
              /\ cnt' = Logged(c, 2 * listeners)
              /\ UNCHANGED <<scrollY, startPosition, response, dpc>>
     ELSE IF action.action = "type" THEN
       IF TypeRejection(action, activeElement) # None
         THEN /\ Respond(TypeErrorResponse(TypeRejection(action, activeElement)),
                         Logged(c, 2 * listeners))
              /\ UNCHANGED <<scrollY, epc, startPosition>>
         ELSE /\ epc' = "type_timer"
              /\ cnt' = Logged(c, 3 * listeners)
              /\ UNCHANGED <<scrollY, startPosition, response, dpc>>
     ELSE /\ Respond(UnknownActionResponse, c)
          /\ UNCHANGED <<scrollY, epc, startPosition>>
  /\ UNCHANGED <<tabUrl, geom, listeners, activeElement, values, action, tabId,
                 lastError, result, settled>>
  /\ UNCHANGED outerVars

\* handleScroll's timer: sample window.scrollY and answer.
ExecScrollMeasure ==
  /\ dpc = "forwarded"
  /\ epc = "scroll_timer"
  /\ Respond(MeasureResponse(action.direction, action.pixels, startPosition, scrollY, geom),
             Logged(cnt, 2 * cnt.receives))
  /\ epc' = "idle"
  /\ UNCHANGED <<tabUrl, geom, scrollY, listeners, activeElement, values, startPosition,
                 action, tabId, lastError, result, settled>>
  /\ UNCHANGED outerVars

\* handleClick's timer: a submit control inside a form submits the form, any
\* other element is clicked.
ExecClickFire ==
  /\ dpc = "forwarded"
  /\ epc = "click_timer"
  /\ Respond(ClickResponse(action),
             Logged(IF action.element_data = "#submit"
                      THEN [cnt EXCEPT !.submits = @ + cnt.receives]
                      ELSE [cnt EXCEPT !.clicks = @ + cnt.receives], cnt.receives))
  /\ epc' = "idle"
  /\ UNCHANGED <<tabUrl, geom, scrollY, listeners, activeElement, values, startPosition,
                 action, tabId, lastError, result, settled>>
  /\ UNCHANGED outerVars

\* handleTypeAction after its wait: focus, set the value, dispatch input and
\* change.
ExecTypeFire ==
  /\ dpc = "forwarded"
  /\ epc = "type_timer"
  /\ LET target == TypeTarget(action, activeElement) IN
       /\ activeElement' = target
       /\ values' = [values EXCEPT ![target] = action.text]
       /\ Respond(TypeResponse(action, target),
                  Logged([cnt EXCEPT !.events =
                                        @ \o Times(<<"input", "change">>, cnt.receives)],
                         2 * cnt.receives))
  /\ epc' = "idle"
  /\ UNCHANGED <<tabUrl, geom, scrollY, listeners, startPosition,
                 action, tabId, lastError, result, settled>>
  /\ UNCHANGED outerVars

(***************************************************************************)
(* Dispatcher: the callback and the capture it may start.                  *)
(***************************************************************************)
Callback ==
  /\ dpc = "callback"
  /\ LET plan == OnResponse(action, response, lastError) IN
       /\ Settle(plan.resolves, cnt)
       /\ dpc' = IF plan.capture THEN "capture" ELSE "done"
  /\ UNCHANGED <<tabUrl, geom, pageVars, action, tabId, response, lastError>>
  /\ UNCHANGED outerVars

\* handleGetPageState(tabId) completes and its .then resolves.
EnrichmentCapture(outcome) ==
  /\ dpc = "capture"
  /\ Settle(<<Enriched(response, handleGetPageState(outcome))>>,
            [cnt EXCEPT !.captures = @ + 1,
                        !.capture = IF outcome = "ok" THEN "ok" ELSE "failed"])
  /\ dpc' = "done"
  /\ UNCHANGED <<tabUrl, geom, pageVars, action, tabId, response, lastError>>

CaptureDone ==
  /\ \E outcome \in CaptureOutcomes : EnrichmentCapture(outcome)
  /\ UNCHANGED outerVars

(***************************************************************************)
(* Environment: the page reloads.  Its Executor is gone with it; an action *)
(* it was running is never answered and the callback sees the closed port. *)
(***************************************************************************)
Reload ==
  /\ ~Privileged(tabUrl)
  /\ scrollY' = 0
  /\ listeners' = 0
  /\ activeElement' = "body"
  /\ values' = FreshValues
  /\ epc' = "idle"
  /\ startPosition' = 0
  /\ IF dpc = "forwarded" /\ epc # "idle"
       THEN /\ lastError' = ErrPortClosed
            /\ dpc' = "callback"
       ELSE UNCHANGED <<lastError, dpc>>
  /\ UNCHANGED <<tabUrl, geom, action, tabId, response, result, settled, cnt>>
  /\ UNCHANGED outerVars

Next ==
  \/ \E a \in Actions, t \in TabIds : Dispatch(a, t)
  \/ TabsGet
  \/ Ping
  \/ Inject
  \/ Forward
  \/ DeliverFail
  \/ ExecReceive
  \/ ExecScrollMeasure
  \/ ExecClickFire
  \/ ExecTypeFire
  \/ Callback
  \/ CaptureDone
  \/ Reload

Spec == Init /\ [][Next]_vars

(***************************************************************************)
(* Relay: the socket to the controller (connectWebSocket).                 *)
(***************************************************************************)
\* isConnected is set by onopen and cleared by onclose: it is true of a
\* socket that has opened and has not yet had its close event ("closing"),
\* false of one closed before it opened ("aborting").
isConnected == ws \in {"open", "closing"}

\* ws.onopen
WsOpened ==
  /\ ws = "connecting"
  /\ ws' = "open"
  /\ UNCHANGED <<tabUrl, geom, pageVars, dispVars, timeVars, dpc2,
                 task, isExecuting, rpc, spc, kpc, payload, rel>>

\* ws.onclose: after a close() of the Relay, or because the controller or
\* the network ended the connection; the controller's task goes with it.
WsClosed ==
  /\ ws \in {"connecting", "open", "closing", "aborting"}
  /\ ws' = "closed"
  /\ task' = IF task = "active" THEN "none" ELSE task
  /\ UNCHANGED <<tabUrl, geom, pageVars, dispVars, timeVars, dpc2,
                 isExecuting, rpc, spc, kpc, payload, rel>>

\* setTimeout(connectWebSocket, 2000): a new socket replaces the closed one.
Reconnect ==
  /\ ws = "closed"
  /\ ws' = "connecting"
  /\ UNCHANGED <<tabUrl, geom, pageVars, dispVars, timeVars, dpc2,
                 task, isExecuting, rpc, spc, kpc, payload, rel>>

(***************************************************************************)
(* Relay: handleSubmit.                                                    *)
(***************************************************************************)
\* Up to the await of GET_PAGE_STATE.
handleSubmit ==
  /\ ~isExecuting
  /\ isConnected
  /\ spc = "idle"
  /\ isExecuting' = TRUE
  /\ spc' = "capture"
  /\ UNCHANGED <<tabUrl, geom, pageVars, dispVars, timeVars, dpc2,
                 ws, task, rpc, kpc, payload, rel>>

\* The page state is back: the task goes to the controller; a failed
\* capture, or a send that throws, ends in the catch.
SubmitCaptured ==
  /\ spc = "capture"
  /\ spc' = "idle"
  /\ \E outcome \in CaptureOutcomes :
       IF handleGetPageState(outcome).success /\ WsSend(ws) # "throws"
         THEN /\ task' = IF WsSend(ws) = "delivered" THEN "active" ELSE task
              /\ UNCHANGED isExecuting
         ELSE /\ isExecuting' = FALSE
              /\ UNCHANGED task
  /\ UNCHANGED <<tabUrl, geom, pageVars, dispVars, timeVars, dpc2,
                 ws, rpc, kpc, payload, rel>>

(***************************************************************************)
(* Relay: handleWebSocketMessage for an 'action' message, and              *)
(* handleActionResult.  The controller sends an action only for a task it  *)
(* has, and one at a time.                                                 *)
(***************************************************************************)
\* Up to the await of chrome.tabs.query in the branch of the action's kind;
\* the complete action and an unknown kind are done with here.
OnDirective(data) ==
  /\ ws = "open"
  /\ task = "active"
  /\ rpc = "idle"
  /\ payload' = data
  /\ LET route == Route(Normalize(data))
         fresh == [NoRelay EXCEPT !.origin = "directive",
                                  !.outstanding = rel.outstanding,
                                  !.testPending = rel.testPending,
                                  !.testAck = rel.testAck] IN
       /\ rpc' = IF route = "dispatch" THEN "query" ELSE "idle"
       /\ isExecuting' = IF route = "complete" THEN FALSE ELSE isExecuting
       /\ task' = IF route = "complete" THEN "done" ELSE task
       /\ rel' = IF route = "unknown"
                   THEN ActionFailed(fresh, ErrUnknownDirective, ws)
                   ELSE fresh
  /\ UNCHANGED <<tabUrl, geom, pageVars, dispVars, timeVars, dpc2, ws, spc, kpc>>

\* chrome.tabs.query is back: without an active tab the action fails here,
\* with one the EXECUTE_ACTION message goes to the Dispatcher.
RelaySend ==
  /\ rpc = "query"
  /\ \E t \in {0, 1} :
       IF t = 0
         THEN /\ rel' = ActionFailed(rel, ErrNoActiveTabFound, ws)
              /\ rpc' = "idle"
              /\ UNCHANGED <<tabUrl, geom, pageVars, dispVars>>
         ELSE /\ handleExecuteAction(ExecuteMessage(Normalize(payload), t).action, t)
              /\ rel' = [rel EXCEPT !.sent = @ + 1,
                                    !.sentAfterStop = (task = "stopped"),
                                    !.outstanding = @ + 1]
              /\ rpc' = "awaiting"
  /\ UNCHANGED <<timeVars, dpc2, ws, task, isExecuting, spc, kpc, payload>>

\* The Test Scroll button: an EXECUTE_ACTION without tabId.
testScroll ==
  /\ rpc = "idle"
  /\ handleExecuteAction(TestScrollAction, 0)
  /\ rel' = [NoRelay EXCEPT !.origin = "test", !.sent = 1,
                            !.sentAfterStop = (task = "stopped"),
                            !.outstanding = 1]
  /\ rpc' = "awaiting"
  /\ payload' = NoPayload
  /\ UNCHANGED <<timeVars, dpc2, ws, task, isExecuting, spc, kpc>>

\* The Dispatcher's answer reaches handleActionResult: a failure is
\* acknowledged and shown at once, a success starts the wait before the
\* capture.
ResultArrives ==
  /\ rpc = "awaiting"
  /\ settled
  /\ LET r == [rel EXCEPT !.outstanding = @ - 1] IN
     IF result.success
       THEN /\ rel' = [r EXCEPT !.outcome = "ok"]
            /\ rpc' = "settling"
       ELSE /\ rel' = ActionFailed(r, result.error, ws)
            /\ rpc' = "idle"
  /\ UNCHANGED <<tabUrl, geom, pageVars, dispVars, timeVars, dpc2,
                 ws, task, isExecuting, spc, kpc, payload>>

\* After the wait: tabs.query, GET_PAGE_STATE, and the acknowledgment.
ResultCaptured ==
  /\ rpc = "settling"
  /\ \E outcome \in CaptureOutcomes :
       rel' = ActionSucceeded(rel, handleGetPageState(outcome), ws)
  /\ rpc' = "idle"
  /\ UNCHANGED <<tabUrl, geom, pageVars, dispVars, timeVars, dpc2,
                 ws, task, isExecuting, spc, kpc, payload>>

(***************************************************************************)
(* Relay: handleStop, and the Dispatcher's STOP_TASK.                      *)
(***************************************************************************)
\* wsRef.current.close(), then the STOP_TASK message is on its way.
handleStop ==
  /\ isExecuting
  /\ kpc = "idle"
  /\ ws' = IF ws = "open" THEN "closing"
           ELSE IF ws = "connecting" THEN "aborting"
           ELSE ws
  /\ task' = "stopped"
  /\ kpc' = "stop_task"
  /\ UNCHANGED <<tabUrl, geom, pageVars, dispVars, timeVars, dpc2,
                 isExecuting, rpc, spc, payload, rel>>

\* The Dispatcher answers STOP_TASK with {success: true} and does nothing
\* else; handleStop goes on to setIsExecuting(false).
StopTaskAnswered ==
  /\ kpc = "stop_task"
  /\ kpc' = "idle"
  /\ isExecuting' = FALSE
  /\ UNCHANGED <<tabUrl, geom, pageVars, dispVars, timeVars, dpc2,
                 ws, task, rpc, spc, payload, rel>>

NextRelay ==
  \/ WsOpened
  \/ WsClosed
  \/ Reconnect
  \/ handleSubmit
  \/ SubmitCaptured
  \/ \E data \in Payloads : OnDirective(data)
  \/ RelaySend
  \/ testScroll
  \/ ResultArrives
  \/ ResultCaptured
  \/ handleStop
  \/ StopTaskAnswered
  \/ TabsGet
  \/ Ping
  \/ Inject
  \/ Forward
  \/ DeliverFail
  \/ ExecReceive
  \/ ExecScrollMeasure
  \/ ExecClickFire
  \/ ExecTypeFire
  \/ Callback
  \/ CaptureDone
  \/ Reload

\* One page of scheme u in the active tab, with n Executor listeners.
InitTab(u, n) ==
  /\ tabUrl = u
  /\ geom = [bodyScrollHeight |-> 2800, deScrollHeight |-> 2800,
             bodyOffsetHeight |-> 2800, deOffsetHeight |-> 2800,
             bodyClientHeight |-> 2800, deClientHeight |-> 800,
             innerHeight |-> 800]
  /\ scrollY = 0
  /\ listeners = n
  /\ activeElement = "body"
  /\ values = FreshValues
  /\ dpc = "idle"
  /\ action = NoAction
  /\ tabId = 0
  /\ response = NoResponse
  /\ lastError = None
  /\ result = NoResult
  /\ settled = FALSE
  /\ cnt = NoCounts
  /\ epc = "idle"
  /\ startPosition = 0
  /\ InitOuter

\* One ordinary page in the active tab, with n Executor listeners.
InitOnePage(n) == InitTab("https", n)

InitRelay == InitOnePage(0)

SpecRelay == InitRelay /\ [][NextRelay]_vars

(***************************************************************************)
(* The captures the Dispatcher serves, on a clock.                         *)
(***************************************************************************)
\* A capture is served: it is logged with the time since the screenshot
\* before it; a screenshot taken restarts that time.
Observe(outcome, pageState) ==
  /\ lastCapture' = [served |-> TRUE, call |-> outcome, gap |-> sinceScreenshot,
                     success |-> pageState.success,
                     error |-> pageState.error,
                     screenshot |-> pageState.screenshot,
                     html |-> pageState.html]
  /\ sinceScreenshot' = IF pageState.screenshot # None THEN 0 ELSE sinceScreenshot

\* The onMessage listener gets GET_PAGE_STATE and answers with
\* handleGetPageState(message.tabId).
GetPageState ==
  /\ \E outcome \in CaptureOutcomes : Observe(outcome, handleGetPageState(outcome))
  /\ UNCHANGED <<tabUrl, geom, pageVars, dispVars, relayVars, limiterVars, dpc2>>

\* The capture that enriches a click, type or wait.
TimedCaptureDone ==
  /\ \E outcome \in CaptureOutcomes :
       /\ EnrichmentCapture(outcome)
       /\ Observe(outcome, handleGetPageState(outcome))
  /\ UNCHANGED <<relayVars, limiterVars, dpc2>>

Tick ==
  /\ sinceScreenshot < MIN_SCREENSHOT_INTERVAL
  /\ \E d \in Elapses :
       sinceScreenshot' = Min2(sinceScreenshot + d, MIN_SCREENSHOT_INTERVAL)
  /\ UNCHANGED <<tabUrl, geom, pageVars, dispVars, relayVars, lastCapture,
                 limiterVars, dpc2>>

\* The actions whose success the Dispatcher follows with a capture.
CaptureActions ==
  {MkAction("click", None, 0, None, "#btn", None, None),
   MkAction("type", None, 0, None, "#input", "hello", None)}

NextCapture ==
  \/ \E a \in CaptureActions : Dispatch(a, 1)
  \/ TabsGet
  \/ Ping
  \/ Forward
  \/ ExecReceive
  \/ ExecClickFire
  \/ ExecTypeFire
  \/ Callback
  \/ TimedCaptureDone
  \/ GetPageState
  \/ Tick

InitCapture == InitOnePage(1)

SpecCapture == InitCapture /\ [][NextCapture]_vars

(***************************************************************************)
(* The Dispatcher and a page whose own script can take the page's thread,  *)
(* on which the Executor's listener runs too.  Every step of the           *)
(* Dispatcher and of the browser is taken in the end, and so is a message  *)
(* to a listener whose thread is free again and again; nothing makes the   *)
(* page's script give the thread back.                                     *)
(***************************************************************************)
PageBusy ==
  /\ listeners > 0
  /\ epc = "idle"
  /\ epc' = "busy"
  /\ UNCHANGED <<tabUrl, geom, scrollY, listeners, activeElement, values,
                 startPosition, dispVars, outerVars>>

PageFree ==
  /\ epc = "busy"
  /\ epc' = "idle"
  /\ UNCHANGED <<tabUrl, geom, scrollY, listeners, activeElement, values,
                 startPosition, dispVars, outerVars>>

NextProbe ==
  \/ \E a \in CaptureActions, t \in {1, 2} : Dispatch(a, t)
  \/ TabsGet
  \/ Ping
  \/ Inject
  \/ Forward
  \/ ExecReceive
  \/ ExecClickFire
  \/ ExecTypeFire
  \/ Callback
  \/ CaptureDone
  \/ PageBusy
  \/ PageFree

FairProbe ==
  /\ WF_vars(TabsGet)
  /\ SF_vars(Ping)
  /\ WF_vars(Inject)
  /\ WF_vars(Forward)
  /\ SF_vars(ExecReceive)
  /\ WF_vars(ExecClickFire)
  /\ WF_vars(ExecTypeFire)
  /\ WF_vars(Callback)
  /\ WF_vars(CaptureDone)

SpecProbe == InitRelay /\ [][NextProbe]_vars /\ FairProbe

(***************************************************************************)
(* Relay: the Test Scroll button pressed while an action is with the       *)
(* Dispatcher.  The button is always there and testScroll tests nothing    *)
(* before it sends.                                                        *)
(***************************************************************************)
\* testScroll sends its EXECUTE_ACTION, without tabId; the Dispatcher's
\* handleExecuteAction returns for it before it touches anything.
testScrollBusy ==
  /\ rpc = "awaiting"
  /\ ~rel.testPending
  /\ rel' = [rel EXCEPT !.outstanding = @ + 1, !.testPending = TRUE]
  /\ UNCHANGED <<tabUrl, geom, pageVars, dispVars, timeVars, dpc2,
                 ws, task, isExecuting, rpc, spc, kpc, payload>>

\* Its callback: handleActionResult({success: false, error: 'No tab ID
\* provided'}) sends the failure on the socket and shows it.
TestResultArrives ==
  /\ rel.testPending
  /\ rel' = [rel EXCEPT !.outstanding = @ - 1, !.testPending = FALSE,
                        !.testAck = WsSend(ws)]
  /\ UNCHANGED <<tabUrl, geom, pageVars, dispVars, timeVars, dpc2,
                 ws, task, isExecuting, rpc, spc, kpc, payload>>

NextOverlap ==
  \/ WsOpened
  \/ handleSubmit
  \/ SubmitCaptured
  \/ \E data \in Payloads : OnDirective(data)
  \/ RelaySend
  \/ testScrollBusy
  \/ TestResultArrives
  \/ ResultArrives
  \/ ResultCaptured
  \/ TabsGet
  \/ Ping
  \/ Inject
  \/ Forward
  \/ ExecReceive
  \/ ExecScrollMeasure
  \/ ExecClickFire
  \/ ExecTypeFire
  \/ Callback
  \/ CaptureDone

SpecOverlap == InitRelay /\ [][NextOverlap]_vars

(***************************************************************************)
(* The Dispatcher and a page that starts with its Executor running: the    *)
(* Executor is lost only by a reload.                                      *)
(***************************************************************************)
InitReload == InitOnePage(1)

SpecReload == InitReload /\ [][Next]_vars

(***************************************************************************)
(* getPageState(tabId) applied, on the clock of the background script.     *)
(***************************************************************************)
\* getPageState returns: the capture is logged with how it ended and how
\* long after the timestamp it was asked for.
Served(outcome, pageState) ==
  lastCapture' = [served |-> TRUE, call |-> outcome,
                  gap |-> now - lastScreenshotTime,
                  success |-> pageState.success,
                  error |-> pageState.error,
                  screenshot |-> pageState.screenshot,
                  html |-> pageState.html]

\* getPageState up to the screenshot call: tabs.get, the test of the URL,
\* the test of the rate limit and, when limited, the html alone.
getPageStateCall ==
  /\ gpc = "idle"
  /\ \E tabOk \in BOOLEAN, htmlOk \in BOOLEAN :
       IF ~tabOk
         THEN Served("tab_throws", PageStateFailure(ErrNoTab)) /\ gpc' = gpc
       ELSE IF tabUrl = None \/ ~isAccessibleUrl(tabUrl)
         THEN Served("refused", PageStateFailure(ErrInaccessiblePage)) /\ gpc' = gpc
       ELSE IF RateLimited(now, lastScreenshotTime)
         THEN /\ Served(IF htmlOk THEN "limited" ELSE "limited_html_throws",
                        LimitedPageState(htmlOk))
              /\ gpc' = gpc
       ELSE gpc' = "shot" /\ UNCHANGED lastCapture
  /\ UNCHANGED <<tabUrl, geom, pageVars, dispVars, relayVars, dpc2, sinceScreenshot,
                 now, lastScreenshotTime>>

\* captureVisibleTab settles, the timestamp is taken, getPageHtml settles.
getPageStateShot ==
  /\ gpc = "shot"
  /\ \E shotOk \in BOOLEAN, htmlOk \in BOOLEAN :
       /\ lastScreenshotTime' = StampAfter(shotOk, lastScreenshotTime, now)
       /\ Served(IF ~shotOk THEN "screenshot_throws"
                 ELSE IF ~htmlOk THEN "html_throws" ELSE "ok",
                 FullPageState(shotOk, htmlOk))
  /\ gpc' = "idle"
  /\ UNCHANGED <<tabUrl, geom, pageVars, dispVars, relayVars, dpc2, sinceScreenshot, now>>

\* Time passes.
ClockTick ==
  /\ now < MaxNow
  /\ \E d \in Elapses : now' = now + d
  /\ UNCHANGED <<tabUrl, geom, pageVars, dispVars, relayVars, dpc2, sinceScreenshot,
                 lastCapture, lastScreenshotTime, gpc>>

NextLimiter ==
  \/ getPageStateCall
  \/ getPageStateShot
  \/ ClockTick

InitLimiter == \E u \in UrlKinds : InitTab(u, 0)

SpecLimiter == InitLimiter /\ [][NextLimiter]_vars

(***************************************************************************)
(* Two EXECUTE_ACTION messages with the Dispatcher at once.  The message   *)
(* listener starts handleExecuteAction for each message as it arrives; the *)
(* second call is followed up to the end of its injection.                 *)
(***************************************************************************)
\* A second EXECUTE_ACTION arrives with a tabId, and its chrome.tabs.get
\* returns.
SecondCall ==
  /\ dpc2 = "idle"
  /\ dpc2' = "ping"
  /\ UNCHANGED <<tabUrl, geom, pageVars, dispVars, relayVars, timeVars>>

\* Its PING: answered when a listener is registered, failed when none is.
SecondPing ==
  /\ dpc2 = "ping"
  /\ dpc2' = AfterPing(ProbeAcked(listeners))
  /\ UNCHANGED <<tabUrl, geom, pageVars, dispVars, relayVars, timeVars>>

\* Its executeScript: the content script runs once more in the page and
\* registers its listener.
SecondInject ==
  /\ dpc2 = "inject"
  /\ \E ok \in BOOLEAN :
       /\ ok => ~Privileged(tabUrl)
       /\ dpc2' = AfterInject(ok)
       /\ listeners' = IF ok THEN listeners + 1 ELSE listeners
  /\ UNCHANGED <<tabUrl, geom, scrollY, activeElement, values, epc, startPosition,
                 dispVars, relayVars, timeVars>>

NextTwoCalls ==
  \/ \E a \in CaptureActions, t \in TabIds : Dispatch(a, t)
  \/ TabsGet
  \/ Ping
  \/ Inject
  \/ Forward
  \/ ExecReceive
  \/ ExecClickFire
  \/ ExecTypeFire
  \/ Callback
  \/ CaptureDone
  \/ SecondCall
  \/ SecondPing
  \/ SecondInject

SpecTwoCalls == InitRelay /\ [][NextTwoCalls]_vars

(***************************************************************************)
(* One scroll action asked for again and again, on a page whose heights do *)
(* not change and whose Executor is running.                               *)
(***************************************************************************)
\* Where the page may stand when the first scroll is asked for.
StartPositions(g) == {0, ScrollRange(g) \div 2, ScrollRange(g)}

InitRepeat ==
  /\ tabUrl = "https"
  /\ geom \in Geometries
  /\ scrollY \in StartPositions(geom)
  /\ listeners = 1
  /\ activeElement = "body"
  /\ values = FreshValues
  /\ dpc = "idle"
  /\ action = NoAction
  /\ tabId = 0
  /\ response = NoResponse
  /\ lastError = None
  /\ result = NoResult
  /\ settled = FALSE
  /\ cnt = NoCounts
  /\ epc = "idle"
  /\ startPosition = 0
  /\ InitOuter

\* The caller sends a scroll action, and after its result the same again.
RepeatScroll ==
  \E a \in ScrollActions :
    /\ action = NoAction \/ action = a
    /\ Dispatch(a, 1)

NextRepeat ==
  \/ RepeatScroll
  \/ TabsGet
  \/ Ping
  \/ Forward
  \/ ExecReceive
  \/ ExecScrollMeasure
  \/ Callback

\* The caller keeps asking, and every pending await, message and timer of
\* the Dispatcher and the Executor is served.
FairRepeat ==
  /\ WF_vars(RepeatScroll)
  /\ WF_vars(TabsGet)
  /\ WF_vars(Ping)
  /\ WF_vars(Forward)
  /\ WF_vars(ExecReceive)
  /\ WF_vars(ExecScrollMeasure)
  /\ WF_vars(Callback)

SpecRepeat == InitRepeat /\ [][NextRepeat]_vars /\ FairRepeat

(***************************************************************************)
(* Relay: the life of a task, from handleSubmit to its end.  The           *)
(* controller answers a task with messages that end it, or with actions    *)
(* the Relay settles itself.                                               *)
(***************************************************************************)
\* handleWebSocketMessage for a message of type 'complete' or 'error': the
\* text is shown and isExecuting cleared.
OnMessage(type) ==
  /\ ws = "open"
  /\ task = "active"
  /\ rpc = "idle"
  /\ isExecuting' = FALSE
  /\ task' = "done"
  /\ UNCHANGED <<tabUrl, geom, pageVars, dispVars, timeVars, dpc2,
                 ws, rpc, spc, kpc, payload, rel>>

\* The directives the Relay is done with in the handler itself: the complete
\* action, flat or in the executor envelope, and a kind it does not know.
TaskPayloads == {d \in Payloads : Route(Normalize(d)) # "dispatch"}

NextTasks ==
  \/ WsOpened
  \/ WsClosed
  \/ Reconnect
  \/ handleSubmit
  \/ SubmitCaptured
  \/ \E data \in TaskPayloads : OnDirective(data)
  \/ \E type \in {"complete", "error"} : OnMessage(type)
  \/ handleStop
  \/ StopTaskAnswered

\* The Dispatcher answers every STOP_TASK.
FairTasks == WF_vars(StopTaskAnswered)

SpecTasks == InitRelay /\ [][NextTasks]_vars /\ FairTasks

(***************************************************************************)
(* Properties.                                                             *)
(***************************************************************************)
Answered == response.present
Enriching == {"click", "type", "wait"}

\* C1: a dispatch sends at most one PING, makes at most one injection and
\* forwards at most once; an acknowledged PING is followed by no injection,
\* and a forward after a failed PING has exactly one injection before it.
C1_OneInjectionOneForward ==
  /\ cnt.pings <= 1
  /\ cnt.injections <= 1
  /\ cnt.forwards <= 1
  /\ cnt.ping = "ready" => cnt.injections = 0
  /\ cnt.injections = 1 => cnt.ping = "failed"
  /\ cnt.forwards = 1 => cnt.pings = 1
  /\ (cnt.forwards = 1 /\ cnt.ping = "failed") => cnt.injections = 1

C1_Witness ==
  /\ dpc = "done"
  /\ cnt.ping = "failed"
  /\ cnt.injections = 1
  /\ cnt.forwards = 1
  /\ settled /\ result.success

\* C2: when the Executor reports success for a click, type or wait, the
\* result of the dispatch is settled after the page-state capture and its
\* details hold the Executor's details (text for type) and, when the capture
\* went well, the screenshot and the html.
C2_ResultIsEnriched ==
  (settled /\ action.action \in Enriching /\ Answered /\ response.success)
    => /\ cnt.capturesAtSettle = 1
       /\ result.details.text = response.details.text
       /\ result.details.selector = response.details.selector
       /\ cnt.capture = "ok" =>
            /\ result.details.html.present
            /\ result.details.screenshot # None

\* C3: a dispatch to a tab with a privileged URL, or with no URL, fails with
\* no PING, injection or EXECUTE_ACTION sent to the tab.
C3_PrivilegedTabUntouched ==
  (tabId = 1 /\ Privileged(tabUrl))
    => /\ cnt.pings = 0
       /\ cnt.injections = 0
       /\ cnt.forwards = 0
       /\ settled => ~result.success

\* C4: when the Executor succeeded at a click, type or wait and the capture
\* that follows fails, the dispatch returns success:false with the message
\* that the action succeeded and the state capture failed.
CompositeError(kind) ==
  IF kind = "click" THEN "Click succeeded but failed to get page state"
  ELSE IF kind = "type" THEN "Type action succeeded but failed to get page state"
  ELSE "Wait action succeeded but failed to get page state"

C4_CompositeFailure ==
  (dpc = "done" /\ action.action \in Enriching /\ Answered /\ response.success
     /\ cnt.capture = "failed")
    => /\ ~result.success
       /\ result.error = CompositeError(action.action)

\* C5: a scroll the Executor has measured (or short-circuited) is answered
\* with success:true and the Dispatcher returns success:true, also when
\* actualChange is 0.
C5_ZeroScrollIsSuccess ==
  (action.action = "scroll" /\ Answered)
    => /\ response.success
       /\ settled => result.success

C5_Witness ==
  /\ action.action = "scroll" /\ Answered /\ settled
  /\ cnt.scrollCalls = 1
  /\ response.details.actualChange = 0

\* C6: for a successful scroll response with details the Dispatcher returns
\* success:true and the message chosen in the order: up and at top, down
\* and at bottom, actualChange = 0, else "scrolled <direction> by
\* |actualChange|".
C6_Message(dir, d) ==
  IF dir = "up" /\ d.isAtTop
    THEN [kind |-> "Already at the top of the page", direction |-> None, by |-> 0]
  ELSE IF dir = "down" /\ d.isAtBottom
    THEN [kind |-> "Already at the bottom of the page", direction |-> None, by |-> 0]
  ELSE IF d.actualChange = 0
    THEN [kind |-> "No scroll needed or possible", direction |-> None, by |-> 0]
  ELSE [kind |-> "Scrolled", direction |-> dir,
        by |-> IF d.actualChange < 0 THEN 0 - d.actualChange ELSE d.actualChange]

C6_ScrollMessagePrecedence ==
  (settled /\ action.action = "scroll" /\ Answered /\ response.success
     /\ response.details.present)
    => /\ result.success
       /\ result.details = response.details
       /\ result.message = C6_Message(action.direction, response.details)

C6_Witness ==
  /\ settled /\ action.action = "scroll" /\ Answered
  /\ action.direction = "up"
  /\ response.details.isAtTop
  /\ response.details.actualChange = 0
  /\ result.message.kind = "Already at the top of the page"

\* C7: a scroll that starts at the requested boundary (up with
\* startPosition <= 0, down with startPosition >= maxScroll) is answered
\* with success:true, scrolled false, actualChange 0 and endPosition =
\* startPosition, and no scroll is invoked on the page.
C7_AtBoundary(dir, start) ==
  \/ dir = "up" /\ start <= 0
  \/ dir = "down" /\ start >= MaxScroll(geom)

C7_BoundaryShortCircuit ==
  /\ (action.action = "scroll" /\ Answered
        /\ C7_AtBoundary(action.direction, response.details.startPosition))
       => /\ response.success
          /\ ~response.details.scrolled
          /\ response.details.actualChange = 0
          /\ response.details.endPosition = response.details.startPosition
          /\ cnt.scrollCalls = 0
  /\ epc = "scroll_timer" => ~C7_AtBoundary(action.direction, startPosition)

C7_Witness ==
  /\ action.action = "scroll" /\ Answered
  /\ action.direction = "down"
  /\ MaxScroll(geom) > 0
  /\ response.details.startPosition >= MaxScroll(geom)
  /\ dpc = "done"

\* C8 (as stated): a scroll with room to move ends, as measured, at
\* clamp(startPosition + signedPixels, 0, maxScroll) within the tolerance.
C8_Clamp(start, dir, px) ==
  LET moved == IF dir = "up" THEN start - px ELSE start + px IN
  IF moved < 0 THEN 0 ELSE IF moved > MaxScroll(geom) THEN MaxScroll(geom) ELSE moved

C8_Near(a, b) == a - b <= BottomTolerance /\ b - a <= BottomTolerance

C8_RoomToMove ==
  /\ action.action = "scroll" /\ Answered
  /\ ~C7_AtBoundary(action.direction, response.details.startPosition)

C9_ElementNotFound ==
  (dpc = "done" /\ action.action = "click" /\ Answered
     /\ action.element_data = "#missing")
    => /\ ~result.success
       /\ result.error = ErrElementNotFound
       /\ cnt.clicks = 0 /\ cnt.submits = 0
       /\ cnt.captures = 0

\* C10: when the injection throws after a failed PING the dispatch returns
\* success:false with the injection error and never forwards the action.
C10_InjectionFailureIsTerminal ==
  cnt.inject = "threw"
    => /\ cnt.ping = "failed"
       /\ cnt.forwards = 0
       /\ dpc = "done"
       /\ settled /\ ~result.success /\ result.error = ErrInjection

C10_Witness ==
  /\ cnt.inject = "threw"
  /\ ~Privileged(tabUrl)
  /\ dpc = "done"

\* C11: a dispatch whose tab id is missing, or whose tab does not resolve,
\* returns success:false with the tab error, and no PING, injection or
\* EXECUTE_ACTION has been sent to any Executor.
C11_NoTabNoMessage ==
  (dpc # "idle" /\ tabId # 1)
    => /\ cnt.pings = 0
       /\ cnt.injections = 0
       /\ cnt.forwards = 0
       /\ cnt.receives = 0
       /\ dpc \in {"tabs_get", "done"}
       /\ dpc = "done" =>
            /\ settled /\ ~result.success
            /\ result.error = (IF tabId = 0 THEN ErrNoTabId ELSE ErrNoTab)

C11_Witness ==
  /\ dpc = "done"
  /\ tabId = 2
  /\ listeners = 1
  /\ ~result.success /\ result.error = ErrNoTab

\* A forward that came back without an answer of the Executor.
C12_Unanswered == dpc = "done" /\ cnt.forwards = 1 /\ ~Answered

\* C12 (as stated): a forward that gets no answer, a transport error
\* included, returns success:false with the error 'No response from content
\* script', and the action is forwarded once.
C12_NoResponseError ==
  C12_Unanswered
    => /\ settled /\ ~result.success
       /\ result.error = ErrNoResponse
       /\ cnt.forwards = 1

\* C12 (amended): a forward that ends in a transport error returns
\* success:false with the message of chrome.runtime.lastError, resolves
\* once, and the action is forwarded once and never again.
C12_TransportErrorIsReturned ==
  /\ cnt.forwards <= 1
  /\ C12_Unanswered
       => /\ lastError \in {ErrNoReceiver, ErrPortClosed}
          /\ settled /\ ~result.success
          /\ result.error = lastError
          /\ cnt.resolves = 1
          /\ cnt.captures = 0

C12_Witness ==
  /\ C12_Unanswered
  /\ lastError = ErrPortClosed
  /\ cnt.receives = 1

\* C14: a PING that finds a listener is answered {status:'ready'} and
\* leaves the page as it was: no node appended, no scroll, no value, focus
\* or listener changed, whatever the page's state and however often.
C14_PingChangesNothing ==
  [][(Ping /\ listeners > 0)
       => /\ cnt'.ping = "ready"
          /\ cnt'.appended = cnt.appended
          /\ pageVars' = pageVars
          /\ geom' = geom]_vars

C14_Witness ==
  /\ dpc = "forward"
  /\ cnt.ping = "ready"
  /\ cnt.appended = 0
  /\ scrollY > 0
  /\ values["#input"] = "hello"
  /\ activeElement = "#input"

\* C15: an EXECUTE_ACTION the Executor received is answered once and no
\* more; a handler that has finished on a page still loaded has answered;
\* and an answer that reports a failure carries its message.
C15_AnsweredOnce ==
  /\ cnt.receives <= cnt.forwards
  /\ cnt.responses <= cnt.receives
  /\ (cnt.receives = 1 /\ epc = "idle" /\ lastError # ErrPortClosed)
       => /\ cnt.responses = 1
          /\ Answered
  /\ (Answered /\ ~response.success)
       => \/ response.error # None
          \/ response.details.error # None

C15_Witness ==
  /\ cnt.receives = 1 /\ cnt.responses = 1
  /\ action.action = "click"
  /\ Answered /\ ~response.success
  /\ response.error = ErrNoElementData

\* C13: a capture served less than the minimum interval after a screenshot
\* returns no screenshot, and its html; this of the captures the Dispatcher
\* serves for GET_PAGE_STATE and takes to enrich a result.
C13_SecondCaptureHasNoScreenshot ==
  (lastCapture.served /\ lastCapture.success
     /\ lastCapture.gap < MIN_SCREENSHOT_INTERVAL)
    => /\ lastCapture.screenshot = None
       /\ lastCapture.html.present

\* C16: the step that receives a complete action, flat or in the executor
\* envelope, sends no EXECUTE_ACTION, leaves the Dispatcher, the Executor
\* and the page as they were, and leaves the executing state; and while
\* the task stays completed nothing is sent for that action.
C16_CompleteReceived ==
  \E data \in Payloads :
    /\ Normalize(data).action = "complete"
    /\ OnDirective(data)

C16_CompleteEndsTask ==
  /\ [][C16_CompleteReceived
          => /\ ~isExecuting'
             /\ rpc' = "idle"
             /\ rel'.sent = 0
             /\ UNCHANGED <<dispVars, pageVars>>]_vars
  /\ []((task = "done" /\ rel.origin = "directive")
          => (rel.sent = 0 /\ rpc = "idle"))

C16_Witness ==
  /\ payload.tool = "executor"
  /\ Normalize(payload).action = "complete"
  /\ rel.origin = "directive" /\ rel.sent = 0
  /\ task = "done"
  /\ ~isExecuting
  /\ listeners = 1

\* C17: once the stop signal is given the Relay sends no EXECUTE_ACTION for
\* an action of the stopped task.
C17_NoDispatchAfterStop ==
  ~(rel.origin = "directive" /\ rel.sent = 1 /\ rel.sentAfterStop)

\* C18: the data of an action message, given flat or in the executor
\* envelope, is normalized to the Action it carries; both forms normalize
\* to the same Action and build the same EXECUTE_ACTION message, which is
\* the one the Dispatcher got.
C18_SameAction ==
  rel.origin = "directive"
    => \E a \in DirectiveActions :
         /\ payload \in {Flat(a), Nested(a)}
         /\ Normalize(payload) = a
         /\ Normalize(Flat(a)) = Normalize(Nested(a))
         /\ ExecuteMessage(Normalize(Flat(a)), 1) = ExecuteMessage(Normalize(Nested(a)), 1)
         /\ rel.sent = 1 =>
              /\ action = ExecuteMessage(a, 1).action
              /\ tabId = 1

C18_Witness ==
  /\ payload = Nested(MkAction("scroll", "down", 1999, None, None, None, None))
  /\ rel.origin = "directive" /\ rel.sent = 1
  /\ action = MkAction("scroll", "down", 1999, None, None, None, None)
  /\ dpc = "done" /\ result.success

\* The Relay has dispatched the action in hand and handleActionResult has
\* run to its end.
C19_Done == rel.sent = 1 /\ rpc = "idle"

\* success with the page state when the action and the capture went well,
\* otherwise failure with an error.
C19_AckShape ==
  /\ rel.ack.success <=> (rel.outcome = "ok" /\ rel.captured = "ok")
  /\ rel.ack.success => (rel.ack.screenshot # None /\ rel.ack.html.present)
  /\ ~rel.ack.success => rel.ack.error # None

\* C19 (as stated): for each action dispatched, exactly one acknowledgment
\* goes to the controller, after the result, of the stated shape.
C19_ExactlyOneAck ==
  /\ (rel.sent = 1 /\ rel.acks > 0) => settled
  /\ C19_Done => (rel.acks = 1 /\ C19_AckShape)

\* C19 (amended): at most one acknowledgment, after the result; exactly
\* one, of the stated shape, when the socket is open as handleActionResult
\* sends it, and none when it is not.
C19_OneAckWhileOpen ==
  /\ rel.acks <= 1
  /\ (rel.sent = 1 /\ rel.acks > 0) => (settled /\ rel.outcome # None)
  /\ C19_Done =>
       IF rel.wsAtAck = "open"
         THEN rel.acks = 1 /\ C19_AckShape
         ELSE rel.acks = 0

C19_Witness ==
  /\ C19_Done
  /\ rel.origin = "directive"
  /\ rel.wsAtAck = "open"
  /\ rel.acks = 1
  /\ rel.ack.success
  /\ action.action = "click"

\* C20: a result with success:false is shown as one error message, and the
\* action is not sent again.
C20_FailureShownNoRetry ==
  (rel.outcome = "failed" /\ rpc = "idle")
    => /\ rel.shown = 1
       /\ rel.sent <= 1


\* C21: a type action takes its target from the locator it carries and
\* otherwise from the focused element; when the locator matches nothing or
\* the element is no text control the answer is a failure and no value is
\* changed and no event dispatched; otherwise the handler goes on and sets
\* the target's value, then dispatches input and change, nothing else.
C21_Target ==
  IF action.element_data # None
    THEN (IF action.element_data \in Elements THEN action.element_data ELSE None)
    ELSE activeElement

C21_Invalid == C21_Target = None \/ C21_Target \notin {"#input", "#area", "#submit"}

C23_KeyPressOnFocusedElement ==
  (action.action = "keypress" /\ cnt.responses = 1)
    => IF activeElement # "body"
         THEN /\ response.success
              /\ cnt.events = <<"keydown", "keyup">>
         ELSE /\ ~response.success
              /\ cnt.events = << >>

\* C24: the Executor answers 'Unknown action type' only to an action whose
\* kind is none of click, type, scroll, keypress and wait.
C24_UnknownOnlyOutsideModel ==
  (cnt.responses = 1 /\ response.details.error = ErrUnknownAction)
    => action.action \notin {"click", "type", "scroll", "keypress", "wait"}


\* C25: lastScreenshotTime never decreases; it is changed only by a
\* capture whose screenshot call succeeded; a capture that fails or is
\* rate limited leaves it unchanged.
C25_TimestampOnlyOnSuccess ==
  [][/\ lastScreenshotTime' >= lastScreenshotTime
     /\ (lastScreenshotTime' # lastScreenshotTime)
          => (getPageStateShot /\ lastCapture'.call \in {"ok", "html_throws"})
     /\ getPageStateCall => UNCHANGED lastScreenshotTime
     /\ (getPageStateShot /\ ~lastCapture'.success)
          => UNCHANGED lastScreenshotTime]_vars

\* C25, amended: lastScreenshotTime never decreases; it is changed only by
\* a capture whose screenshot call succeeded, to the time the call
\* returned, also when the DOM read after it throws and the capture fails;
\* a capture whose tab or screenshot call fails, that is refused or that
\* is rate limited leaves it unchanged.
C25_TimestampOnScreenshot ==
  [][/\ lastScreenshotTime' >= lastScreenshotTime
     /\ (lastScreenshotTime' # lastScreenshotTime)
          => /\ getPageStateShot
             /\ lastCapture'.call \in {"ok", "html_throws"}
             /\ lastScreenshotTime' = now
     /\ getPageStateCall => UNCHANGED lastScreenshotTime
     /\ (getPageStateShot /\ lastCapture'.call = "screenshot_throws")
          => UNCHANGED lastScreenshotTime]_vars

\* A capture asked for 750 ms after a screenshot was limited and left the
\* timestamp where the screenshot had put it.
C25_Witness ==
  /\ lastCapture.call = "limited"
  /\ lastCapture.gap = RelaySettleMs
  /\ lastScreenshotTime > 0
  /\ lastScreenshotTime = now - RelaySettleMs

\* C26: a capture whose screenshot call or DOM read threw has returned a
\* failure with the error and no part of a page state; a capture that
\* returned success carries both the screenshot and the html.
C26_CaptureFailureIsReturned ==
  lastCapture.served
    => /\ (lastCapture.call \in {"screenshot_throws", "html_throws", "limited_html_throws"})
            => /\ ~lastCapture.success
               /\ lastCapture.error \in {ErrCaptureVisibleTab, ErrExecuteScript}
               /\ lastCapture.screenshot = None
               /\ ~lastCapture.html.present
       /\ (lastCapture.success /\ lastCapture.call # "limited")
            => /\ lastCapture.call = "ok"
               /\ lastCapture.screenshot # None
               /\ lastCapture.html.present

C26_Witness ==
  /\ lastCapture.served
  /\ lastCapture.call = "html_throws"
  /\ ~lastCapture.success
  /\ lastCapture.error = ErrExecuteScript
  /\ lastCapture.gap = 0


\* C27: within one dispatch the PING comes first, the injection only after
\* a PING that failed, the forward only once the PING was acknowledged or
\* the injection done, and the capture only after the Executor's answer to
\* the forwarded action has arrived.
C27_StepOrder ==
  /\ [][Ping => (cnt.pings = 0 /\ cnt.injections = 0 /\ cnt.forwards = 0
                   /\ cnt.captures = 0)]_vars
  /\ [][Inject => (cnt.pings = 1 /\ cnt.ping = "failed" /\ cnt.injections = 0
                     /\ cnt.forwards = 0 /\ cnt.captures = 0)]_vars
  /\ [][Forward => (/\ cnt.pings = 1 /\ cnt.forwards = 0 /\ cnt.captures = 0
                    /\ \/ cnt.ping = "ready" /\ cnt.injections = 0
                       \/ cnt.ping = "failed" /\ cnt.inject = "ok")]_vars
  /\ [][CaptureDone => (cnt.forwards = 1 /\ cnt.responses = 1 /\ Answered
                         /\ response.success /\ cnt.captures = 0)]_vars
  /\ [](dpc = "capture" => (Answered /\ cnt.responses = 1))

\* All four steps taken, in a dispatch that had to inject.
C27_Witness ==
  /\ dpc = "done"
  /\ cnt.ping = "failed" /\ cnt.inject = "ok"
  /\ cnt.forwards = 1 /\ cnt.responses = 1 /\ cnt.captures = 1
  /\ action.action = "click"
  /\ result.success

\* C28: a dispatch starts without any probe result; every forward follows a
\* PING of the same dispatch, whose outcome is that of the page as it is
\* then; a PING that finds no Executor (the page was reloaded) is followed
\* by an injection before the forward.
C28_ProbedEveryDispatch ==
  /\ [][(\E a \in Actions, t \in TabIds : Dispatch(a, t))
          => (cnt'.pings = 0 /\ cnt'.ping = None /\ cnt'.inject = None)]_vars
  /\ [][Forward => cnt.pings = 1]_vars
  /\ [][Ping => /\ cnt'.ping = IF listeners > 0 THEN "ready" ELSE "failed"
                /\ dpc' = IF listeners > 0 THEN "forward" ELSE "inject"]_vars
  /\ [][(Forward /\ cnt.ping = "failed")
          => (cnt.inject = "ok" /\ cnt.injections = 1)]_vars

\* The page started with its Executor; this dispatch found none, injected
\* one and forwarded the action to it.
C28_Witness ==
  /\ cnt.ping = "failed"
  /\ cnt.inject = "ok"
  /\ cnt.forwards = 1
  /\ cnt.receives = 1
  /\ listeners = 1


\* C30: of the EXECUTE_ACTION messages the Relay has sent, at most one has
\* no result yet.
C30_AtMostOneOutstanding == rel.outstanding <= 1


\* C29: a dispatch that has sent its PING leaves the PING in the end,
\* acknowledged or not.
C29_ProbeIsBounded == (dpc = "ping") ~> (dpc # "ping")


\* C31: the promise of a dispatch is resolved by one resolve call, and a
\* dispatch that is done has been resolved.
C31_SettledOnce ==
  /\ cnt.resolves <= 1
  /\ dpc = "done" => cnt.resolves = 1

\* C33: when the Executor answered success:false to a click, type or wait,
\* the dispatch is settled as a failure, with no capture taken, and with
\* the error text of the Executor's answer.
C33_ExecutorError ==
  IF response.error # None THEN response.error ELSE response.details.error

C33_FailurePassedOn ==
  (settled /\ Answered /\ ~response.success /\ action.action \in Enriching)
    => /\ ~result.success
       /\ cnt.captures = 0
       /\ result.error = C33_ExecutorError

\* C32: at most one Executor message listener is registered in the page, so
\* a forwarded action is received by one listener, executed once and
\* answered once.
C32_OneListener ==
  /\ listeners <= 1
  /\ cnt.receives <= cnt.forwards
  /\ cnt.responses <= cnt.forwards
  /\ cnt.clicks <= 1
  /\ Len(cnt.events) <= 2

\* C34: a scroll repeated in one direction on a page of constant height
\* comes to a result that reports the limit of that direction (isAtBottom
\* for down, isAtTop for up), and from that result on the position of the
\* page does not change any more.
C34_LimitReported ==
  /\ settled
  /\ result.success
  /\ IF action.direction = "down" THEN result.details.isAtBottom
                                  ELSE result.details.isAtTop

C34_Limits ==
  {y \in UNION {{0, MaxScroll(g) - BottomTolerance, MaxScroll(g)} : g \in Geometries} :
     y >= 0}

C34_RepeatedScrollComesToRest ==
  /\ <>C34_LimitReported
  /\ \A y \in C34_Limits :
       []((C34_LimitReported /\ scrollY = y) => [](scrollY = y))

\* C35: the Relay runs one task at a time.  A task is submitted only when
\* isExecuting is false and the socket is open; isExecuting stays set while
\* the controller has the task, and is cleared only by a complete or error
\* message, a complete action, a stop, or the failure of the submission
\* itself; and a stop is followed by the end of the executing state.
C35_TaskEnds ==
  \/ task = "active" /\ task' = "done"
  \/ kpc = "stop_task" /\ kpc' = "idle"
  \/ spc = "capture" /\ spc' = "idle"

C35_OneTaskAtATime ==
  /\ [](task = "active" => isExecuting)
  /\ [][handleSubmit => (~isExecuting /\ ws = "open")]_vars
  /\ [][(isExecuting /\ ~isExecuting') => C35_TaskEnds]_vars
  /\ (kpc = "stop_task") ~> ~isExecuting

=============================================================================
